---- MODULE Spec2Model ----
(***************************************************************************)
(* AbsProject of angr/project_abs.py: the per-architecture initial state,  *)
(* the table of SimProcedures hooked at addresses (sim_procedures) and the *)
(* choice sim_run makes between the system call handler, a hooked          *)
(* SimProcedure and a lifted block.                                        *)
(*                                                                         *)
(* Values of the collaborators (simuvex, pyvex, the loader) are opaque:    *)
(* a SimState is named by an identifier, a SimProcedure class by its name, *)
(* a keyword dictionary by its printed form.  Register contents are wider  *)
(* than the integers of the checker, so a register value is the big-endian *)
(* sequence of its 16-bit words.  Every call a method makes on a           *)
(* collaborator is recorded, in order, in the "calls" of its result.       *)
(***************************************************************************)
EXTENDS Integers, Sequences, FiniteSets, TLC

\* Bounds of the model.
MaxAddr == 2
MaxHooks == 2
NumThreads == 2

Addrs == 0..MaxAddr
Threads == 1..NumThreads

\* Architecture names: the five of initial_state and one it does not know.
ArchNames == {"AMD64", "X86", "ARM", "PPC32", "MIPS32", "SPARC"}
\* arch.instruction_alignment and arch.sp_offset belong to simuvex.
Alignments == {1, 2}
SpOffsets == {24, 48, 60}
\* What the loader knows of an address: no binary there, or the T register.
LoaderInfo == {"None", "T0", "T1"}
\* SimProcedure classes that get hooked; memcpy_chk derives from memcpy.
Classes == {"memcpy", "memcpy_chk"}
KwInputs == {"None", "{}", "{n:8}"}
States == {"s1", "s2"}
Modes == {"None", "symbolic", "static"}
Options == {"None", "{o}"}

VARIABLES
    arch,                   \* self.arch
    default_analysis_mode,  \* self.default_analysis_mode
    loader,                 \* binary_by_addr(addr) and its T register
    sim_procedures,         \* self.sim_procedures: addr -> <<class, kwargs>>
    result,                 \* the last finished call: arguments and outcome
    prev,                   \* an earlier sim_run since the table last changed
    threads                 \* callers inside add_custom_sim_procedure

vars == <<arch, default_analysis_mode, loader, sim_procedures, result, prev, threads>>

NoCall == [op |-> "none"]
NoRun == [key |-> <<>>]
NoUnit == [tag |-> "none"]
Idle == [pc |-> "idle"]
EmptyTable == [a \in {} |-> <<"memcpy", "{}">>]

\* d[k] = v in a Python dict.
Put(d, k, v) == [x \in DOMAIN d \cup {k} |-> IF x = k THEN v ELSE d[x]]

(***************************************************************************)
(* initial_state                                                           *)
(***************************************************************************)
Zeros(n) == [i \in 1..n |-> 0]

\* The size-byte content store_reg writes for a value given as 16-bit words.
Fit(words, size) ==
    LET n == size \div 2
        w == Zeros(n) \o words
    IN  SubSeq(w, Len(w) - n + 1, Len(w))

store_reg(s, offset, content, size) ==
    [s EXCEPT !.regs = Put(s.regs, offset, Fit(content, size)),
              !.writes = Append(s.writes, offset)]

SimState(mode, options) ==
    [arch |-> arch, mode |-> mode, options |-> options,
     regs |-> [o \in {} |-> <<>>], writes |-> <<>>]

\* Lines 46-47.
init_AMD64(s) ==
    store_reg(store_reg(s, 176, <<1>>, 8),
              s.arch.sp_offset, <<4095, 65535, 65535, 0>>, 8)

\* Line 49.
init_X86(s) == store_reg(s, s.arch.sp_offset, <<32767, 0>>, 4)

\* A plausible slip: the THUMB state is left as the engine made it.
init_ARM_sp_only(s) == store_reg(s, s.arch.sp_offset, <<65535, 0>>, 4)

\* Lines 51-54.
init_ARM(s) ==
    store_reg(store_reg(s, s.arch.sp_offset, <<65535, 0>>, 4), 392, <<0>>, 4)

\* Lines 57 and 60.
init_PPC32(s) == store_reg(s, s.arch.sp_offset, <<65535, 0>>, 4)
init_MIPS32(s) == store_reg(s, s.arch.sp_offset, <<65535, 0>>, 4)

\* The outcome of initial_state: the state it returns or the exception it
\* raises, and the state as the method left it.
initial_state(options, mode) ==
    LET m == IF mode = "None" /\ options = "None" THEN default_analysis_mode ELSE mode
        s == SimState(m, options)
    IN  IF s.arch.name = "AMD64" THEN [raised |-> "None", state |-> init_AMD64(s)]
        ELSE IF s.arch.name = "X86" THEN [raised |-> "None", state |-> init_X86(s)]
        ELSE IF s.arch.name = "ARM" THEN [raised |-> "None", state |-> init_ARM(s)]
        ELSE IF s.arch.name = "PPC32" THEN [raised |-> "None", state |-> init_PPC32(s)]
        ELSE IF s.arch.name = "MIPS32" THEN [raised |-> "None", state |-> init_MIPS32(s)]
        ELSE [raised |-> "Exception: Architecture %s is not supported.", state |-> s]

\* The history variable prev is no part of the program: each specification
\* says what it records.
InitialState(options, mode) ==
    /\ result' = [op |-> "initial_state", options |-> options, mode |-> mode,
                  out |-> initial_state(options, mode)]
    /\ UNCHANGED <<arch, default_analysis_mode, loader, sim_procedures, threads>>

(***************************************************************************)
(* The table of hooked SimProcedures                                       *)
(***************************************************************************)
\* if kwargs is None: kwargs = {}
NormKwargs(kwargs) == IF kwargs = "None" THEN "{}" ELSE kwargs

is_sim_procedure(hashed_addr) == hashed_addr \in DOMAIN sim_procedures

\* A plausible slip: no membership test, the later hook replaces the first.
add_custom_sim_procedure_overwrite(address, sim_proc, kwargs) ==
    /\ sim_procedures' = Put(sim_procedures, address, <<sim_proc, NormKwargs(kwargs)>>)
    /\ result' = [op |-> "add_custom_sim_procedure", address |-> address,
                  sim_proc |-> sim_proc, kwargs |-> kwargs,
                  warning |-> FALSE, ret |-> "None"]
    /\ UNCHANGED <<arch, default_analysis_mode, loader, threads>>

add_custom_sim_procedure(address, sim_proc, kwargs) ==
    /\ IF address \in DOMAIN sim_procedures
       THEN /\ sim_procedures' = sim_procedures
            /\ result' = [op |-> "add_custom_sim_procedure", address |-> address,
                          sim_proc |-> sim_proc, kwargs |-> kwargs,
                          warning |-> TRUE, ret |-> "None"]
       ELSE /\ sim_procedures' = Put(sim_procedures, address, <<sim_proc, NormKwargs(kwargs)>>)
            /\ result' = [op |-> "add_custom_sim_procedure", address |-> address,
                          sim_proc |-> sim_proc, kwargs |-> kwargs,
                          warning |-> FALSE, ret |-> "None"]
    /\ UNCHANGED <<arch, default_analysis_mode, loader, threads>>

IsSimProcedure(hashed_addr) ==
    /\ result' = [op |-> "is_sim_procedure", hashed_addr |-> hashed_addr,
                  ret |-> is_sim_procedure(hashed_addr)]
    /\ UNCHANGED <<arch, default_analysis_mode, loader, sim_procedures, threads>>

\* The classes an instance of class c is an instance of.
Mro(c) == IF c = "memcpy_chk" THEN {"memcpy_chk", "memcpy"} ELSE {c}

\* A plausible slip: the test the other way round.
isinstance_reversed(s_proc, simproc_class) == s_proc \in Mro(simproc_class)

isinstance(s_proc, simproc_class) == simproc_class \in Mro(s_proc)

\* The addresses the scan of the dictionary may return: its order is not
\* the order of insertion, so any matching address may come first.
Matching(s_proc) ==
    {a \in DOMAIN sim_procedures : isinstance(s_proc, sim_procedures[a][1])}

get_pseudo_addr_for_sim_procedure(s_proc) ==
    /\ IF Matching(s_proc) = {}
       THEN result' = [op |-> "get_pseudo_addr_for_sim_procedure",
                       s_proc |-> s_proc, ret |-> <<>>]
       ELSE \E a \in Matching(s_proc) :
                result' = [op |-> "get_pseudo_addr_for_sim_procedure",
                           s_proc |-> s_proc, ret |-> <<a>>]
    /\ UNCHANGED <<arch, default_analysis_mode, loader, sim_procedures, threads>>

(***************************************************************************)
(* block, sim_block, sim_run                                               *)
(***************************************************************************)
NotRaised == [type |-> "None"]
ErrorStateExit ==
    [type |-> "AngrExitError", msg |-> "Provided exit of jumpkind %s is in an error state."]
Misaligned ==
    [type |-> "AngrExitError",
     msg |-> "Address 0x%x does not align to alignment %d for architecture %s."]
NoIDA == [type |-> "AngrMemoryError", msg |-> "No IDA to check thumb mode at 0x%x."]

Raise(e, calls) == [raised |-> e, unit |-> NoUnit, calls |-> calls]
After(calls, out) == [out EXCEPT !.calls = calls \o out.calls]

\* self.binary_by_addr(addr) is None
binary_by_addr_is_None(addr) == loader[addr] = "None"

\* self.vexer.block(addr, ..., thumb=thumb)
vexer_block(addr, thumb) ==
    [raised |-> NotRaised,
     irsb |-> [tag |-> "IRSB", addr |-> addr, thumb |-> thumb],
     calls |-> <<[fn |-> "vexer.block", addr |-> addr, thumb |-> thumb]>>]

\* A plausible slip: without a binary the block is lifted as ARM code.
block_default_mode(addr) ==
    IF arch.name = "ARM" /\ ~binary_by_addr_is_None(addr)
    THEN After(<<[fn |-> "binary_by_addr", addr |-> addr],
                 [fn |-> "binary_by_addr", addr |-> addr],
                 [fn |-> "GetReg", addr |-> addr]>>,
               vexer_block(addr, loader[addr] = "T1"))
    ELSE IF arch.name = "ARM"
    THEN After(<<[fn |-> "binary_by_addr", addr |-> addr]>>, vexer_block(addr, FALSE))
    ELSE vexer_block(addr, FALSE)

\* The pyvex block at addr, or the exception raised on the way to it.
block(addr) ==
    IF arch.name = "ARM"
    THEN IF binary_by_addr_is_None(addr)
         THEN [raised |-> NoIDA, irsb |-> NoUnit,
               calls |-> <<[fn |-> "binary_by_addr", addr |-> addr]>>]
         ELSE After(<<[fn |-> "binary_by_addr", addr |-> addr],
                      [fn |-> "binary_by_addr", addr |-> addr],
                      [fn |-> "GetReg", addr |-> addr]>>,
                    vexer_block(addr, loader[addr] = "T1"))
    ELSE vexer_block(addr, FALSE)

concretize(where) == where.addr

sim_block(where) ==
    LET b == block(concretize(where))
    IN  IF b.raised # NotRaised
        THEN Raise(b.raised, <<[fn |-> "concretize"]>> \o b.calls)
        ELSE [raised |-> NotRaised,
              unit |-> [tag |-> "SimIRSB", state |-> where.state,
                        addr |-> concretize(where), irsb |-> b.irsb],
              calls |-> <<[fn |-> "concretize"]>> \o b.calls
                        \o <<[fn |-> "concretize"],
                             [fn |-> "SimIRSB", addr |-> concretize(where)]>>]

\* Line 138.
syscall_handler(state, addr) ==
    [raised |-> NotRaised,
     unit |-> [tag |-> "syscalls.handler", state |-> state, addr |-> addr],
     calls |-> <<[fn |-> "syscalls.handler", addr |-> addr]>>]

\* A plausible slip: the keyword arguments of the hook are not passed on.
sim_proc_class_no_kwargs(state, addr) ==
    [raised |-> NotRaised,
     unit |-> [tag |-> "SimProcedure", state |-> state, addr |-> addr,
               sim_proc_class |-> sim_procedures[addr][1], kwargs |-> "{}"],
     calls |-> <<[fn |-> "sim_proc_class", addr |-> addr]>>]

\* Lines 140-143.
sim_proc_class(state, addr) ==
    [raised |-> NotRaised,
     unit |-> [tag |-> "SimProcedure", state |-> state, addr |-> addr,
               sim_proc_class |-> sim_procedures[addr][1],
               kwargs |-> sim_procedures[addr][2]],
     calls |-> <<[fn |-> "sim_proc_class", addr |-> addr]>>]

\* A plausible slip: every address passes.
misaligned_never(addr) == FALSE

\* Line 130.
misaligned(addr) == addr % arch.instruction_alignment # 0

\* A plausible slip: the hook is looked for before the system call.
sim_run_hook_first(where) ==
    IF where.is_error
    THEN Raise(ErrorStateExit, <<>>)
    ELSE LET addr == concretize(where)
             state == where.state
         IN  After(<<[fn |-> "concretize"]>>,
                   IF misaligned(addr) THEN Raise(Misaligned, <<>>)
                   ELSE IF is_sim_procedure(addr) THEN sim_proc_class(state, addr)
                   ELSE IF where.is_syscall THEN syscall_handler(state, addr)
                   ELSE sim_block(where))

\* A plausible slip: the address is looked at before the error flag.
sim_run_error_late(where) ==
    LET addr == concretize(where)
        state == where.state
    IN  After(<<[fn |-> "concretize"]>>,
              IF misaligned(addr) THEN Raise(Misaligned, <<>>)
              ELSE IF where.is_error THEN Raise(ErrorStateExit, <<>>)
              ELSE IF where.is_syscall THEN syscall_handler(state, addr)
              ELSE IF is_sim_procedure(addr) THEN sim_proc_class(state, addr)
              ELSE sim_block(where))

\* The SimRun sim_run returns or the exception it raises.  The state of an
\* exit of this project has the architecture of the project.
sim_run(where) ==
    IF where.is_error
    THEN Raise(ErrorStateExit, <<>>)
    ELSE LET addr == concretize(where)
             state == where.state
         IN  After(<<[fn |-> "concretize"]>>,
                   IF misaligned(addr) THEN Raise(Misaligned, <<>>)
                   ELSE IF where.is_syscall THEN syscall_handler(state, addr)
                   ELSE IF is_sim_procedure(addr) THEN sim_proc_class(state, addr)
                   ELSE sim_block(where))

Exits == [addr : Addrs, state : States, is_error : BOOLEAN, is_syscall : BOOLEAN]

\* A plausible slip: the hook is taken out of the table when it is used.
SimRunPop(where) ==
    /\ result' = [op |-> "sim_run", where |-> where, out |-> sim_run(where)]
    /\ sim_procedures' = [a \in DOMAIN sim_procedures \ {where.addr} |-> sim_procedures[a]]
    /\ UNCHANGED <<arch, default_analysis_mode, loader, threads>>

SimRun(where) ==
    /\ result' = [op |-> "sim_run", where |-> where, out |-> sim_run(where)]
    /\ UNCHANGED <<arch, default_analysis_mode, loader, sim_procedures, threads>>

(***************************************************************************)
(* Two callers inside add_custom_sim_procedure at once: the membership     *)
(* test of line 154 and the store of line 158 are separate steps, and      *)
(* nothing in the method keeps another caller from running between them.   *)
(***************************************************************************)
RegCall(t, address, sim_proc, kwargs) ==
    /\ threads[t].pc = "idle"
    /\ threads' = [threads EXCEPT ![t] =
                      [pc |-> "check", address |-> address, sim_proc |-> sim_proc,
                       kwargs |-> kwargs, warning |-> FALSE]]
    /\ UNCHANGED <<arch, default_analysis_mode, loader, sim_procedures, result>>

RegCheck(t) ==
    /\ threads[t].pc = "check"
    /\ IF threads[t].address \in DOMAIN sim_procedures
       THEN threads' = [threads EXCEPT ![t].pc = "done", ![t].warning = TRUE]
       ELSE threads' = [threads EXCEPT ![t].pc = "store"]
    /\ UNCHANGED <<arch, default_analysis_mode, loader, sim_procedures, result>>

RegStore(t) ==
    /\ threads[t].pc = "store"
    /\ sim_procedures' = Put(sim_procedures, threads[t].address,
                             <<threads[t].sim_proc, NormKwargs(threads[t].kwargs)>>)
    /\ threads' = [threads EXCEPT ![t].pc = "done"]
    /\ UNCHANGED <<arch, default_analysis_mode, loader, result>>

(***************************************************************************)
(* Specifications                                                          *)
(***************************************************************************)
TypicalArch == [name |-> "AMD64", instruction_alignment |-> 1, sp_offset |-> 48]
NoBinaries == [a \in Addrs |-> "None"]

InitRest ==
    /\ sim_procedures = EmptyTable
    /\ result = NoCall
    /\ prev = NoRun
    /\ threads = [t \in Threads |-> Idle]

\* The table: hooks are added and looked up in one project.
Init ==
    /\ arch = TypicalArch
    /\ default_analysis_mode = "symbolic"
    /\ loader = NoBinaries
    /\ InitRest

HasRoom == Cardinality(DOMAIN sim_procedures) < MaxHooks
AddAllowed(address) == HasRoom \/ address \in DOMAIN sim_procedures

Next ==
    \/ \E address \in Addrs, sim_proc \in Classes, kwargs \in KwInputs :
          /\ AddAllowed(address)
          /\ add_custom_sim_procedure(address, sim_proc, kwargs)
          /\ UNCHANGED prev
    \/ \E a \in Addrs : IsSimProcedure(a) /\ UNCHANGED prev
    \/ \E c \in Classes : get_pseudo_addr_for_sim_procedure(c) /\ UNCHANGED prev

Spec == Init /\ [][Next]_vars

\* initial_state in a project of any architecture.
InitStates ==
    /\ arch \in [name : ArchNames, instruction_alignment : Alignments, sp_offset : SpOffsets]
    /\ default_analysis_mode \in Modes \ {"None"}
    /\ loader = NoBinaries
    /\ InitRest

NextStates ==
    \E options \in Options, mode \in Modes :
        InitialState(options, mode) /\ UNCHANGED prev

SpecStates == InitStates /\ [][NextStates]_vars

\* sim_run in a project of any architecture.  The loader is asked about an
\* address on ARM alone; elsewhere the model gives it no binary at all.
InitRun ==
    /\ arch \in [name : ArchNames, instruction_alignment : Alignments, sp_offset : {48}]
    /\ default_analysis_mode = "symbolic"
    /\ loader \in [Addrs -> LoaderInfo]
    /\ arch.name # "ARM" => loader = NoBinaries
    /\ InitRest

NextRun ==
    \/ \E address \in Addrs, kwargs \in {"None", "{n:8}"} :
          /\ AddAllowed(address)
          /\ add_custom_sim_procedure(address, "memcpy", kwargs)
          /\ UNCHANGED prev
    \/ \E where \in Exits : SimRun(where) /\ UNCHANGED prev

SpecRun == InitRun /\ [][NextRun]_vars

\* Two sim_run calls.  Which instruction set the loader names does not show in
\* what is compared, so the loader either has no binary or says thumb.
InitTwice ==
    /\ arch \in [name : ArchNames, instruction_alignment : Alignments, sp_offset : {48}]
    /\ default_analysis_mode = "symbolic"
    /\ loader \in [Addrs -> {"None", "T1"}]
    /\ arch.name # "ARM" => loader = NoBinaries
    /\ InitRest

\* prev keeps one of the earlier sim_run calls made since
\* the table last changed.
RunKey(r) == <<r.where.addr, r.where.is_error, r.where.is_syscall>>
RunSummary(r) ==
    [key |-> RunKey(r), raised |-> r.out.raised, tag |-> r.out.unit.tag,
     addr |-> IF r.out.unit.tag = "none" THEN <<>> ELSE <<r.out.unit.addr>>]

Remember ==
    IF sim_procedures' # sim_procedures
    THEN prev' = NoRun
    ELSE \/ prev' = prev
         \/ result.op = "sim_run" /\ prev' = RunSummary(result)

NextTwice ==
    \/ \E address \in Addrs :
          /\ AddAllowed(address)
          /\ add_custom_sim_procedure(address, "memcpy", "None")
          /\ Remember
    \/ \E where \in Exits : SimRun(where) /\ Remember

SpecTwice == InitTwice /\ [][NextTwice]_vars

\* Callers of add_custom_sim_procedure that run at once, one call each.
NextRace ==
    \/ \E t \in Threads, address \in Addrs, sim_proc \in Classes, kwargs \in KwInputs :
          RegCall(t, address, sim_proc, kwargs) /\ UNCHANGED prev
    \/ \E t \in Threads : RegCheck(t) /\ UNCHANGED prev
    \/ \E t \in Threads : RegStore(t) /\ UNCHANGED prev

SpecRace == Init /\ [][NextRace]_vars

(***************************************************************************)
(* Properties                                                              *)
(***************************************************************************)
\* The descriptor a call of add_custom_sim_procedure names: the class and
\* the keyword dictionary, an absent dictionary being the empty one.
Descriptor(sim_proc, kwargs) == <<sim_proc, IF kwargs = "None" THEN "{}" ELSE kwargs>>

\* What an add_custom_sim_procedure step does when a rejected call returns ret.
RegisterStep(ret) ==
    result'.op = "add_custom_sim_procedure" =>
        LET a == result'.address
            d == Descriptor(result'.sim_proc, result'.kwargs)
        IN  /\ IF a \in DOMAIN sim_procedures
               THEN /\ sim_procedures' = sim_procedures
                    /\ sim_procedures'[a] = sim_procedures[a]
                    /\ result'.warning
                    /\ result'.ret = ret
               ELSE /\ DOMAIN sim_procedures' = DOMAIN sim_procedures \cup {a}
                    /\ sim_procedures'[a] = d
                    /\ \A b \in DOMAIN sim_procedures :
                          sim_procedures'[b] = sim_procedures[b]
                    /\ ~result'.warning
            /\ a \in DOMAIN sim_procedures'

C2_Claim ==
    \A t \in Threads, u \in Threads :
        ( /\ t # u
          /\ threads[t].pc = "done"
          /\ threads[u].pc = "done"
          /\ threads[t].address = threads[u].address
          /\ Descriptor(threads[t].sim_proc, threads[t].kwargs)
               # Descriptor(threads[u].sim_proc, threads[u].kwargs)
          /\ ~threads[t].warning )
        => /\ threads[u].warning
           /\ sim_procedures[threads[t].address]
                = Descriptor(threads[t].sim_proc, threads[t].kwargs)

\* The calls the last sim_run made on a collaborator.
Called(fn) ==
    \E i \in DOMAIN result.out.calls : result.out.calls[i].fn = fn
CallCount(fn) ==
    Cardinality({i \in DOMAIN result.out.calls : result.out.calls[i].fn = fn})
Ran == result.op = "sim_run"
Aligned == result.where.addr % arch.instruction_alignment = 0
Hooked == result.where.addr \in DOMAIN sim_procedures

\* C3: an exit that is no error, has an aligned address, is a system call and
\* whose address is hooked gets the system call handler, never the hook.
C3_SyscallFirst ==
    (Ran /\ ~result.where.is_error /\ Aligned /\ result.where.is_syscall /\ Hooked)
    => /\ result.out.raised = NotRaised
       /\ result.out.unit.tag = "syscalls.handler"
       /\ result.out.unit.addr = result.where.addr
       /\ ~Called("sim_proc_class")
       /\ ~Called("vexer.block")

C3_Witness ==
    /\ Ran /\ ~result.where.is_error /\ Aligned /\ result.where.is_syscall /\ Hooked
    /\ result.out.unit.tag = "syscalls.handler"

NothingRun ==
    /\ result.out.unit.tag = "none"
    /\ ~Called("vexer.block")
    /\ ~Called("sim_proc_class")
    /\ ~Called("syscalls.handler")

\* C4 as stated: sim_run of any exit whose address is not a multiple of the
\* instruction alignment fails with the misalignment error and runs neither
\* the lifter, a hook nor the system call handler.
C4_Original ==
    (Ran /\ ~Aligned) => (result.out.raised = Misaligned /\ NothingRun)

\* C4, amended: sim_run of any exit that is not an error exit and whose
\* address is not a multiple of the instruction alignment fails with the
\* misalignment error and runs neither the lifter, a hook nor the system call
\* handler, whatever is_syscall and the table are.
C4_Amended ==
    (Ran /\ ~result.where.is_error /\ ~Aligned)
    => (result.out.raised = Misaligned /\ NothingRun)

C4_Witness ==
    /\ Ran /\ ~result.where.is_error /\ ~Aligned
    /\ result.where.is_syscall /\ Hooked
    /\ result.out.raised = Misaligned

\* C5: sim_run of an error exit fails with the error-state failure before
\* anything else: the target is not concretized, and nothing is run; the
\* failure is not the one of a misaligned address.
C5_ErrorExit ==
    (Ran /\ result.where.is_error)
    => /\ result.out.raised = ErrorStateExit
       /\ result.out.raised # Misaligned
       /\ Len(result.out.calls) = 0
       /\ NothingRun

C5_Witness ==
    /\ Ran /\ result.where.is_error /\ ~Aligned
    /\ result.where.is_syscall /\ Hooked
    /\ result.out.raised = ErrorStateExit

LifterAsked == ~result.where.is_error /\ Aligned /\ ~result.where.is_syscall /\ ~Hooked

\* Off ARM the lifter gets thumb=False and the loader is not asked.
NoModeElsewhere ==
    (Ran /\ arch.name # "ARM")
    => /\ \A i \in DOMAIN result.out.calls :
             result.out.calls[i].fn = "vexer.block" => ~result.out.calls[i].thumb
       /\ ~Called("binary_by_addr")
       /\ ~Called("GetReg")

\* C6 as stated: on ARM, sim_run of an exit at an address the loader has no
\* binary for fails with the missing-mode failure and the lifter is not
\* called; off ARM the lifter gets thumb=False and the loader is not asked.
C6_Original ==
    /\ (Ran /\ arch.name = "ARM" /\ loader[result.where.addr] = "None")
       => (result.out.raised = NoIDA /\ ~Called("vexer.block"))
    /\ NoModeElsewhere

\* C6, amended: on ARM, sim_run of an exit that reaches the lifter (no error
\* exit, aligned, no system call, not hooked) at an address the loader has no
\* binary for fails with the missing-mode failure, and the lifter is never
\* called for an address without a binary; off ARM the lifter gets
\* thumb=False and the loader is not asked.
C6_Amended ==
    /\ (Ran /\ arch.name = "ARM" /\ loader[result.where.addr] = "None")
       => /\ ~Called("vexer.block")
          /\ LifterAsked => (result.out.raised = NoIDA /\ result.out.unit.tag = "none")
    /\ NoModeElsewhere

C6_Witness ==
    /\ Ran /\ arch.name = "ARM" /\ loader[result.where.addr] = "None"
    /\ LifterAsked
    /\ result.out.raised = NoIDA

\* The registers the claim names, as 16-bit words.
Supported == {"AMD64", "X86", "ARM", "PPC32", "MIPS32"}
DefaultSP(name) ==
    CASE name = "AMD64" -> <<4095, 65535, 65535, 0>>
      [] name = "X86" -> <<32767, 0>>
      [] OTHER -> <<65535, 0>>
ExtraWrites(name) ==
    CASE name = "AMD64" -> (176 :> <<0, 0, 0, 1>>)
      [] name = "ARM" -> (392 :> <<0, 0>>)
      [] OTHER -> [o \in {} |-> <<>>]

\* C7: for AMD64, X86, ARM, PPC32 and MIPS32, initial_state returns a state
\* whose stack pointer holds the default of the architecture, in which the
\* extra writes of the architecture are made and no other register is
\* written; for another name it fails and writes no register.
C7_InitialState ==
    result.op = "initial_state" =>
        IF arch.name \in Supported
        THEN /\ result.out.raised = "None"
             /\ result.out.state.regs
                  = (arch.sp_offset :> DefaultSP(arch.name)) @@ ExtraWrites(arch.name)
        ELSE /\ result.out.raised = "Exception: Architecture %s is not supported."
             /\ Len(result.out.state.writes) = 0
             /\ DOMAIN result.out.state.regs = {}

C7_Witness ==
    /\ result.op = "initial_state"
    /\ arch.name = "ARM"
    /\ result.out.raised = "None"
    /\ DOMAIN result.out.state.regs = {arch.sp_offset, 392}

\* C8: sim_run leaves the table as it is, and two sim_run calls on exits with
\* the same address and the same is_error and is_syscall, between which the
\* table does not change, end the same way: the same kind of SimRun at the
\* same address, or the same failure.
C8_Idempotent ==
    [][ result'.op = "sim_run" =>
          /\ sim_procedures' = sim_procedures
          /\ prev'.key = RunKey(result') => prev' = RunSummary(result') ]_vars

C8_Witness ==
    /\ Ran
    /\ prev.key = RunKey(result)
    /\ prev.tag = "SimProcedure"

\* The class of an instance matches the class of a hook: the same class, or
\* the instance is of a class derived from it.
KindMatches(s_proc, variant) ==
    variant = s_proc \/ (s_proc = "memcpy_chk" /\ variant = "memcpy")

\* C9: get_pseudo_addr_for_sim_procedure returns an address of the table whose
\* hook matches the instance, returns None exactly when no hook matches, and
\* leaves the table as it is; with one hook in the table, of the class of
\* the instance, it returns the address of that hook.
C9_ReverseLookup ==
    [][ result'.op = "get_pseudo_addr_for_sim_procedure" =>
          LET hits == {a \in DOMAIN sim_procedures :
                          KindMatches(result'.s_proc, sim_procedures[a][1])}
          IN  /\ sim_procedures' = sim_procedures
              /\ (result'.ret = <<>>) <=> (hits = {})
              /\ result'.ret # <<>> => result'.ret[1] \in hits
              /\ \A a \in Addrs :
                    (DOMAIN sim_procedures = {a} /\ sim_procedures[a][1] = result'.s_proc)
                    => result'.ret = <<a>> ]_vars

C9_Witness ==
    /\ result.op = "get_pseudo_addr_for_sim_procedure"
    /\ result.ret # <<>>
    /\ Cardinality(DOMAIN sim_procedures) = 2
    /\ \E a \in DOMAIN sim_procedures : ~KindMatches(result.s_proc, sim_procedures[a][1])

HookRun ==
    /\ result.out.raised = NotRaised
    /\ result.out.unit.tag = "SimProcedure"
    /\ result.out.unit.sim_proc_class = sim_procedures[result.where.addr][1]
    /\ result.out.unit.kwargs = sim_procedures[result.where.addr][2]
    /\ result.out.unit.addr = result.where.addr
    /\ result.out.unit.state = result.where.state
    /\ ~Called("vexer.block")

BlockRun ==
    /\ result.out.raised = NotRaised
    /\ result.out.unit.tag = "SimIRSB"
    /\ result.out.unit.addr = result.where.addr
    /\ result.out.unit.state = result.where.state
    /\ result.out.unit.irsb.addr = result.where.addr
    /\ CallCount("vexer.block") = 1
    /\ ~Called("sim_proc_class")

\* C10 as stated: sim_run of an exit that is no error, has an aligned address
\* and is no system call gives the hook of the address, with its class, its
\* keyword arguments, the address and the state of the exit and without a
\* call of the lifter, if and only if the address is hooked; otherwise the
\* block at the address, from one call of the lifter.
C10_Original ==
    (Ran /\ ~result.where.is_error /\ Aligned /\ ~result.where.is_syscall)
    => IF Hooked THEN HookRun ELSE BlockRun

\* C10, amended: as stated, but on ARM at an unhooked address the loader has
\* no binary for, sim_run fails with the missing-mode failure and gives no
\* SimRun.
C10_Amended ==
    (Ran /\ ~result.where.is_error /\ Aligned /\ ~result.where.is_syscall)
    => IF Hooked THEN HookRun
       ELSE IF arch.name = "ARM" /\ loader[result.where.addr] = "None"
       THEN result.out.raised = NoIDA /\ NothingRun
       ELSE BlockRun

C10_Witness ==
    /\ Ran /\ ~result.where.is_error /\ Aligned /\ ~result.where.is_syscall
    /\ Hooked
    /\ result.out.unit.tag = "SimProcedure"
    /\ result.out.unit.kwargs = "{n:8}"

====
